---- MODULE Spec2Model ----
(***************************************************************************)
(* proc-exit: exit codes (Code), the exit error (Exit) and the reporting   *)
(* entry points, modelled as the state of a program that calls the crate.  *)
(***************************************************************************)
EXTENDS Integers, Sequences, FiniteSets, TLC

VARIABLES
    portable,   \* build: cfg(feature = "portable")
    unix,       \* build: cfg(target_family = "unix")
    phase,      \* "running" | "terminated" (std::process::exit) | "panicked"
    held,       \* the value the program holds: a Code, a Result<T, Exit>, or nothing
    stderr,     \* the pieces handed to std::io::stderr(), in order
    status,     \* Option<i32>: the argument std::process::exit was called with
    last        \* the last call: <<name, input, ...>>

vars == <<portable, unix, phase, held, stderr, status, last>>

-----------------------------------------------------------------------------
(* Bounds of the model *)

\* pieces handed to stderr after which the program reports no further message
MaxPieces == 5

\* i32 arguments the program passes to Code::new
I32Max == 2147483647
I32Min == -I32Max - 1
I32s == {I32Min, -1, 0, 1, 2, 3, 63, 64, 77, 78, 79, 125, 126, 128, 129,
         143, 144, 255, 256, I32Max}

\* rendered message texts
Texts == {"boom", "denied"}

\* values of T in Result<T, _>
Unit == "()"
OkVals == {Unit, "v"}

-----------------------------------------------------------------------------
(* Option<T>, Result<T, E> *)

None == <<>>
Some(x) == <<x>>
unwrap_or(o, d) == IF o = None THEN d ELSE o[1]
\* Option::or_else(self, f): self if it is Some, else f()
or_else(o, f) == IF o = None THEN f ELSE o

Ok(v) == <<"Ok", v>>
Err(e) == <<"Err", e>>
IsOkResult(r) == r[1] = "Ok"
IsErrResult(r) == r[1] = "Err"

-----------------------------------------------------------------------------
(* code.rs: struct Code(i32) and its constants *)

Code(n) == <<n>>

SUCCESS == Code(0)
FAILURE == Code(1)
UNKNOWN == Code(2)
USAGE_ERR == Code(64)
DATA_ERR == Code(65)
NO_INPUT == Code(66)
NO_USER == Code(67)
NO_HOST == Code(68)
SERVICE_UNAVAILABLE == Code(69)
SOFTWARE_ERR == Code(70)
OS_ERR == Code(71)
OS_FILE_ERR == Code(72)
CANT_CREAT == Code(73)
IO_ERR == Code(74)
TEMP_FAIL == Code(75)
PROTOCOL_ERR == Code(76)
NO_PERM == Code(77)
CONFIG_ERR == Code(78)
NOT_EXECUTABLE == Code(126)
NOT_FOUND == Code(127)
INVALID_EXIT == Code(128)
SIGBASE == 128
SIGHUP == Code(SIGBASE + 1)
SIGINT == Code(SIGBASE + 2)
SIGQUIT == Code(SIGBASE + 3)
SIGILL == Code(SIGBASE + 4)
SIGTRAP == Code(SIGBASE + 5)
SIGABRT == Code(SIGBASE + 6)
\* the signal number one short
SIGFPE_as7 == Code(SIGBASE + 7)
SIGFPE == Code(SIGBASE + 8)
SIGKILL == Code(SIGBASE + 9)
SIGSEGV == Code(SIGBASE + 11)
SIGPIPE == Code(SIGBASE + 13)
SIGALRM == Code(SIGBASE + 14)
SIGTERM == Code(SIGBASE + 15)

Code_new(n) == Code(n)
raw(c) == c[1]

\* bash.rs: the constants of the module
bash_SIGBASE == 128
bash_USAGE == Code_new(2)
bash_NOT_EXECUTABLE == Code_new(126)
bash_NOT_FOUND == Code_new(127)
bash_INVALID_EXIT == Code_new(128)
bash_STATUS_OUT_OF_RANGE == Code_new(255)
bash_SIGHUP == Code_new(bash_SIGBASE + 1)
bash_SIGINT == Code_new(bash_SIGBASE + 2)
bash_SIGQUIT == Code_new(bash_SIGBASE + 3)
bash_SIGILL == Code_new(bash_SIGBASE + 4)
bash_SIGTRAP == Code_new(bash_SIGBASE + 5)
bash_SIGABRT == Code_new(bash_SIGBASE + 6)
bash_SIGFPE == Code_new(bash_SIGBASE + 8)
bash_SIGKILL == Code_new(bash_SIGBASE + 9)
bash_SIGSEGV == Code_new(bash_SIGBASE + 11)
bash_SIGPIPE == Code_new(bash_SIGBASE + 13)
bash_SIGALRM == Code_new(bash_SIGBASE + 14)
bash_SIGTERM == Code_new(bash_SIGBASE + 15)

\* sysexits.rs: the constants of the module
sysexits_OK == Code_new(0)
sysexits_USAGE_ERR == Code_new(64)
sysexits_DATA_ERR == Code_new(65)
sysexits_NO_INPUT == Code_new(66)
sysexits_NO_USER == Code_new(67)
sysexits_NO_HOST == Code_new(68)
sysexits_SERVICE_UNAVAILABLE == Code_new(69)
sysexits_SOFTWARE_ERR == Code_new(70)
sysexits_OS_ERR == Code_new(71)
sysexits_OS_FILE_ERR == Code_new(72)
sysexits_CANT_CREAT == Code_new(73)
sysexits_IO_ERR == Code_new(74)
sysexits_TEMP_FAIL == Code_new(75)
sysexits_PROTOCOL_ERR == Code_new(76)
sysexits_NO_PERM == Code_new(77)
sysexits_CONFIG_ERR == Code_new(78)

\* the named constants, by place and name
Code_consts ==
    [SUCCESS |-> SUCCESS, FAILURE |-> FAILURE, UNKNOWN |-> UNKNOWN,
     USAGE_ERR |-> USAGE_ERR, DATA_ERR |-> DATA_ERR,
     NO_INPUT |-> NO_INPUT, NO_USER |-> NO_USER, NO_HOST |-> NO_HOST,
     SERVICE_UNAVAILABLE |-> SERVICE_UNAVAILABLE,
     SOFTWARE_ERR |-> SOFTWARE_ERR, OS_ERR |-> OS_ERR,
     OS_FILE_ERR |-> OS_FILE_ERR, CANT_CREAT |-> CANT_CREAT,
     IO_ERR |-> IO_ERR, TEMP_FAIL |-> TEMP_FAIL,
     PROTOCOL_ERR |-> PROTOCOL_ERR, NO_PERM |-> NO_PERM,
     CONFIG_ERR |-> CONFIG_ERR, NOT_EXECUTABLE |-> NOT_EXECUTABLE,
     NOT_FOUND |-> NOT_FOUND, INVALID_EXIT |-> INVALID_EXIT,
     SIGHUP |-> SIGHUP, SIGINT |-> SIGINT, SIGQUIT |-> SIGQUIT,
     SIGILL |-> SIGILL, SIGTRAP |-> SIGTRAP, SIGABRT |-> SIGABRT,
     SIGFPE |-> SIGFPE, SIGKILL |-> SIGKILL, SIGSEGV |-> SIGSEGV,
     SIGPIPE |-> SIGPIPE, SIGALRM |-> SIGALRM, SIGTERM |-> SIGTERM]
bash_consts ==
    [USAGE |-> bash_USAGE, NOT_EXECUTABLE |-> bash_NOT_EXECUTABLE,
     NOT_FOUND |-> bash_NOT_FOUND, INVALID_EXIT |-> bash_INVALID_EXIT,
     STATUS_OUT_OF_RANGE |-> bash_STATUS_OUT_OF_RANGE,
     SIGHUP |-> bash_SIGHUP, SIGINT |-> bash_SIGINT,
     SIGQUIT |-> bash_SIGQUIT, SIGILL |-> bash_SIGILL,
     SIGTRAP |-> bash_SIGTRAP, SIGABRT |-> bash_SIGABRT,
     SIGFPE |-> bash_SIGFPE, SIGKILL |-> bash_SIGKILL,
     SIGSEGV |-> bash_SIGSEGV, SIGPIPE |-> bash_SIGPIPE,
     SIGALRM |-> bash_SIGALRM, SIGTERM |-> bash_SIGTERM]
sysexits_consts ==
    [OK |-> sysexits_OK, USAGE_ERR |-> sysexits_USAGE_ERR,
     DATA_ERR |-> sysexits_DATA_ERR, NO_INPUT |-> sysexits_NO_INPUT,
     NO_USER |-> sysexits_NO_USER, NO_HOST |-> sysexits_NO_HOST,
     SERVICE_UNAVAILABLE |-> sysexits_SERVICE_UNAVAILABLE,
     SOFTWARE_ERR |-> sysexits_SOFTWARE_ERR, OS_ERR |-> sysexits_OS_ERR,
     OS_FILE_ERR |-> sysexits_OS_FILE_ERR,
     CANT_CREAT |-> sysexits_CANT_CREAT, IO_ERR |-> sysexits_IO_ERR,
     TEMP_FAIL |-> sysexits_TEMP_FAIL,
     PROTOCOL_ERR |-> sysexits_PROTOCOL_ERR,
     NO_PERM |-> sysexits_NO_PERM, CONFIG_ERR |-> sysexits_CONFIG_ERR]
Modules == {"Code", "bash", "sysexits"}
Catalog(m) ==
    CASE m = "Code" -> Code_consts
      [] m = "bash" -> bash_consts
      [] m = "sysexits" -> sysexits_consts

\* impl From<i32> for Code
Code_from_i32(n) == Code(n)

\* impl Default for Code
Code_default == UNKNOWN

is_portable(c) ==
    IF portable THEN 0 <= c[1] /\ c[1] <= 255
    ELSE TRUE

coerce(c) == IF is_portable(c) THEN Some(c) ELSE None

unwrap_or_default(o) == IF o = None THEN Code_default ELSE o[1]

\* the i32 Code::process_exit hands to std::process::exit
Code_exit_status(c) == raw(unwrap_or_default(coerce(c)))

is_ok(c) == c[1] = SUCCESS[1]
is_err(c) == ~is_ok(c)

\* the last range without its upper end
is_reserved_below_SIGTERM(c) ==
    IF SUCCESS[1] <= c[1] /\ c[1] <= UNKNOWN[1] THEN TRUE
    ELSE IF USAGE_ERR[1] <= c[1] /\ c[1] <= CONFIG_ERR[1] THEN TRUE
    ELSE IF NOT_EXECUTABLE[1] <= c[1] /\ c[1] <= INVALID_EXIT[1] THEN TRUE
    ELSE IF SIGHUP[1] <= c[1] /\ c[1] < SIGTERM[1] THEN TRUE
    ELSE FALSE

is_reserved(c) ==
    IF SUCCESS[1] <= c[1] /\ c[1] <= UNKNOWN[1] THEN TRUE
    ELSE IF USAGE_ERR[1] <= c[1] /\ c[1] <= CONFIG_ERR[1] THEN TRUE
    ELSE IF NOT_EXECUTABLE[1] <= c[1] /\ c[1] <= INVALID_EXIT[1] THEN TRUE
    ELSE IF SIGHUP[1] <= c[1] /\ c[1] <= SIGTERM[1] THEN TRUE
    ELSE FALSE

-----------------------------------------------------------------------------
(* std::process::ExitStatus, as the crate reads it: code() and signal() *)

ExitStatus(c, s) == [code |-> c, signal |-> s]

ExitedCodes == {0, 1, 2, 77, 255}
Signals == {1, 2, 9, 13, 15}

\* Unix wait statuses: exited with a code, killed by a signal, or neither
\* (stopped / continued); elsewhere a status always carries a code.
ExitStatuses ==
    IF unix
    THEN {ExitStatus(Some(n), None) : n \in ExitedCodes}
         \cup {ExitStatus(None, Some(s)) : s \in Signals}
         \cup {ExitStatus(None, None)}
    ELSE {ExitStatus(Some(n), None) : n \in ExitedCodes \cup {-1, 256}}

platform_exit_code(st) ==
    IF unix THEN or_else(st.code, st.signal)
    ELSE st.code

\* impl From<std::process::ExitStatus> for Code
Code_from_ExitStatus(st) ==
    Code_from_i32(unwrap_or(platform_exit_code(st), UNKNOWN[1]))

from_status(st) == Code_from_ExitStatus(st)

-----------------------------------------------------------------------------
(* std::io::ErrorKind and std::io::Error *)

ErrorKind ==
    {"NotFound", "PermissionDenied", "ConnectionRefused", "ConnectionReset",
     "ConnectionAborted", "NotConnected", "AddrInUse", "AddrNotAvailable",
     "BrokenPipe", "AlreadyExists", "WouldBlock", "InvalidInput",
     "InvalidData", "TimedOut", "WriteZero", "Interrupted", "Other",
     "UnexpectedEof", "Unsupported", "OutOfMemory"}

\* the match without its Other arm
Code_from_ErrorKind_noOther(kind) ==
    CASE kind = "NotFound" -> OS_FILE_ERR
      [] kind = "PermissionDenied" -> NO_PERM
      [] kind \in {"ConnectionRefused", "ConnectionReset",
                   "ConnectionAborted", "NotConnected"} -> PROTOCOL_ERR
      [] kind \in {"AddrInUse", "AddrNotAvailable"} -> SERVICE_UNAVAILABLE
      [] kind = "BrokenPipe" -> SIGPIPE
      [] kind = "AlreadyExists" -> CANT_CREAT
      [] kind \in {"InvalidInput", "InvalidData", "UnexpectedEof"} -> DATA_ERR
      [] kind = "TimedOut" -> SIGALRM
      [] kind = "WriteZero" -> NO_INPUT
      [] kind = "Interrupted" -> SIGINT
      [] OTHER -> IO_ERR

\* impl From<std::io::ErrorKind> for Code
Code_from_ErrorKind(kind) ==
    CASE kind = "NotFound" -> OS_FILE_ERR
      [] kind = "PermissionDenied" -> NO_PERM
      [] kind \in {"ConnectionRefused", "ConnectionReset",
                   "ConnectionAborted", "NotConnected"} -> PROTOCOL_ERR
      [] kind \in {"AddrInUse", "AddrNotAvailable"} -> SERVICE_UNAVAILABLE
      [] kind = "BrokenPipe" -> SIGPIPE
      [] kind = "AlreadyExists" -> CANT_CREAT
      [] kind \in {"InvalidInput", "InvalidData", "UnexpectedEof"} -> DATA_ERR
      [] kind = "TimedOut" -> SIGALRM
      [] kind = "WriteZero" -> NO_INPUT
      [] kind = "Interrupted" -> SIGINT
      [] kind = "Other" -> FAILURE
      [] OTHER -> IO_ERR

\* bash.rs
io_to_signal(kind) ==
    CASE kind = "BrokenPipe" -> Some(bash_SIGPIPE)
      [] kind = "TimedOut" -> Some(bash_SIGALRM)
      [] kind = "Interrupted" -> Some(bash_SIGINT)
      [] OTHER -> None

\* a sysexits code also for a kind the signal mapping covers
io_to_sysexists_timeout(kind) ==
    CASE kind = "NotFound" -> Some(sysexits_OS_FILE_ERR)
      [] kind = "PermissionDenied" -> Some(sysexits_NO_PERM)
      [] kind \in {"ConnectionRefused", "ConnectionReset",
                   "ConnectionAborted", "NotConnected"} ->
            Some(sysexits_PROTOCOL_ERR)
      [] kind \in {"AddrInUse", "AddrNotAvailable"} ->
            Some(sysexits_SERVICE_UNAVAILABLE)
      [] kind = "AlreadyExists" -> Some(sysexits_CANT_CREAT)
      [] kind \in {"InvalidInput", "InvalidData", "UnexpectedEof"} ->
            Some(sysexits_DATA_ERR)
      [] kind = "WriteZero" -> Some(sysexits_NO_INPUT)
      [] kind = "TimedOut" -> Some(sysexits_TEMP_FAIL)
      [] OTHER -> None

\* sysexits.rs
io_to_sysexists(kind) ==
    CASE kind = "NotFound" -> Some(sysexits_OS_FILE_ERR)
      [] kind = "PermissionDenied" -> Some(sysexits_NO_PERM)
      [] kind \in {"ConnectionRefused", "ConnectionReset",
                   "ConnectionAborted", "NotConnected"} ->
            Some(sysexits_PROTOCOL_ERR)
      [] kind \in {"AddrInUse", "AddrNotAvailable"} ->
            Some(sysexits_SERVICE_UNAVAILABLE)
      [] kind = "AlreadyExists" -> Some(sysexits_CANT_CREAT)
      [] kind \in {"InvalidInput", "InvalidData", "UnexpectedEof"} ->
            Some(sysexits_DATA_ERR)
      [] kind = "WriteZero" -> Some(sysexits_NO_INPUT)
      [] OTHER -> None

\* io::Error::new(kind, text): its kind() and the text its Display writes
IoError(kind, text) == <<"io", kind, text>>

\* raw OS error numbers the program meets
Errnos == {2, 13}

\* std: the ErrorKind and the description of a raw OS error number
decode_error_kind(errno) ==
    CASE errno = 2 -> "NotFound"
      [] errno = 13 -> "PermissionDenied"
error_string(errno) ==
    CASE errno = 2 -> "No such file or directory"
      [] errno = 13 -> "Permission denied"

\* io::Error::from_raw_os_error(errno): its kind() and the number
OsError(errno) == <<"os", decode_error_kind(errno), errno>>

IoErrors == {IoError(k, t) : k \in ErrorKind, t \in Texts}
                \cup {OsError(n) : n \in Errnos}
kind_of(e) == e[2]

\* a displayable error that is just a string
StrError(text) == <<"str", text>>
StrErrors == {StrError(t) : t \in Texts}

\* a displayable value whose fmt calls write_str once for each of ps
Multi(ps) == <<"multi", ps>>

\* the values of a type D: Display the program attaches as messages
Displayables == StrErrors \cup {Multi(<<"bo", "om">>)}

\* Box<dyn Display>: the type is erased, what is left is what its fmt writes,
\* piece by piece
Boxed(ps) == <<"dyn", ps>>

\* <D as Display>::fmt: the pieces it hands to the formatter, one write_str
\* each; an OS error is written as "{detail} (os error {code})"
fmt_pieces(d) ==
    CASE d[1] = "io" -> <<d[3]>>
      [] d[1] = "os" -> <<error_string(d[3]), " (os error ", ToString(d[3]), ")">>
      [] d[1] = "str" -> <<d[2]>>
      [] d[1] = "multi" -> d[2]
      [] d[1] = "dyn" -> d[2]

\* the String the pieces written make
RECURSIVE Concat(_)
Concat(ps) == IF ps = <<>> THEN "" ELSE ps[1] \o Concat(Tail(ps))

\* format!("{}", d): the text a displayable value renders to
Display(d) == Concat(fmt_pieces(d))

Box_new(d) == Boxed(fmt_pieces(d))

-----------------------------------------------------------------------------
(* exit.rs: struct Exit { code, msg } *)

Exit_new(c) == [code |-> c, msg |-> None]

\* a message once attached is kept
Exit_with_message_keepfirst(e, d) ==
    IF e.msg = None THEN [e EXCEPT !.msg = Some(Box_new(d))] ELSE e

Exit_with_message(e, d) == [e EXCEPT !.msg = Some(Box_new(d))]

\* impl Display for Exit: the text it renders to
Exit_fmt(e) == IF e.msg # None THEN Display(e.msg[1]) ELSE ""

\* impl From<std::io::Error> for Exit
Exit_from_io_Error(err) ==
    Exit_with_message(Exit_new(Code_from_ErrorKind(kind_of(err))), err)

\* success for every code that is not positive
ok_nonpositive(c) == IF c[1] <= SUCCESS[1] THEN Ok(Unit) ELSE Err(Exit_new(c))

\* Code::ok
ok(c) == IF c[1] = SUCCESS[1] THEN Ok(Unit) ELSE Err(Exit_new(c))

\* Code::into_exit: assert_ne!(self, SUCCESS) panics, otherwise Exit::new
into_exit_panics(c) == c = SUCCESS
into_exit(c) == Exit_new(c)

\* Code::with_message
Code_with_message(c, d) == Exit_with_message(into_exit(c), d)

\* WithCodeResultExt::with_code: map_err
with_code(r, c) ==
    IF IsErrResult(r) THEN Err(Exit_with_message(Exit_new(c), r[2]))
    ELSE r

\* the lookup without the signal mapping
to_sysexits_code_nosignal(kind) ==
    unwrap_or(io_to_sysexists(kind), sysexits_IO_ERR)

\* sysexits.rs: the code to_sysexits chooses for an io::Error of this kind
to_sysexits_code(kind) ==
    unwrap_or(or_else(io_to_sysexists(kind), io_to_signal(kind)),
              sysexits_IO_ERR)

\* ToSysexitsResultExt::to_sysexits: map_err
to_sysexits(r) ==
    IF IsErrResult(r)
    THEN Err(Exit_with_message(Exit_new(to_sysexits_code(kind_of(r[2]))), r[2]))
    ELSE r

\* write! in place of writeln!
write_only(d) == fmt_pieces(d)

\* writeln!(w, "{}", msg): the pieces format_args!("{}\n", msg) hands to w,
\* those msg's fmt writes and then the newline
writeln(d) == fmt_pieces(d) \o <<"\n">>

\* ProcessExitResultExt::report: what it hands to stderr
report_writes(r) ==
    IF IsErrResult(r) /\ r[2].msg # None THEN writeln(r[2].msg[1])
    ELSE <<>>

\* Write::write_fmt on the unbuffered stderr: each piece is one write to the
\* stream and the first failed write ends the call, so when the k-th write
\* fails the pieces after it are never handed over
write_fmt(ps, wr, k) == IF wr = "Err" THEN SubSeq(ps, 1, k) ELSE ps

\* a failed write turned into the code returned
report_propagating(r, wr) ==
    IF IsOkResult(r) THEN SUCCESS
    ELSE IF wr = "Err" THEN IO_ERR
    ELSE r[2].code

\* ProcessExitResultExt::report: the Code it returns; wr is the io::Result of
\* the write ("Ok" | "Err"), or "None" when nothing was written
report(r, wr) ==
    IF IsOkResult(r) THEN SUCCESS
    ELSE r[2].code

\* the outcomes <<io::Result, pieces handed>> the write of report can have
\* for r: none made, all pieces written, or the k-th write failed
WriteResults(r) ==
    IF report_writes(r) = <<>> THEN {<<"None", 0>>}
    ELSE {<<"Ok", Len(report_writes(r))>>}
            \cup {<<"Err", k>> : k \in 1..Len(report_writes(r))}

\* the Result<(), Exit> values report and process_exit are implemented for
IsExitResult(r) == r = Ok(Unit) \/ IsErrResult(r)

-----------------------------------------------------------------------------
(* The program: one action per call of the crate, each on the value held *)

Nothing == <<"Nothing">>
HoldCode(c) == <<"Code", c>>
HoldResult(r) == <<"Result", r>>
\* inside result.process_exit(): report has returned c, c.process_exit() is next
Exiting(c) == <<"Exiting", c>>
HoldsCode == held[1] = "Code"
HoldsResult == held[1] = "Result"
code == held[2]
result == held[2]

Init ==
    /\ portable \in BOOLEAN
    /\ unix \in BOOLEAN
    /\ phase = "running"
    /\ held = Nothing
    /\ stderr = <<>>
    /\ status = None
    /\ last = <<"start">>

\* the program is running and between two calls of its own
Running == phase = "running" /\ held[1] # "Exiting"

\* let code = Code::new(n)
New(n) ==
    /\ Running
    /\ held' = HoldCode(Code_new(n))
    /\ last' = <<"new", n>>
    /\ UNCHANGED <<portable, unix, phase, stderr, status>>

\* let code = Code::NAME, bash::NAME or sysexits::NAME
Named(m, n) ==
    /\ Running
    /\ held' = HoldCode(Catalog(m)[n])
    /\ last' = <<"const", m, n>>
    /\ UNCHANGED <<portable, unix, phase, stderr, status>>

\* let code = Code::from_status(st)
FromStatus(st) ==
    /\ Running
    /\ held' = HoldCode(from_status(st))
    /\ last' = <<"from_status", st>>
    /\ UNCHANGED <<portable, unix, phase, stderr, status>>

\* let code = Code::from(kind)
FromErrorKind(kind) ==
    /\ Running
    /\ held' = HoldCode(Code_from_ErrorKind(kind))
    /\ last' = <<"from_kind", kind>>
    /\ UNCHANGED <<portable, unix, phase, stderr, status>>

\* code.is_portable(), code.coerce(), code.is_ok(), code.is_err(),
\* code.is_reserved(), code.raw(): the value returned is kept in last
Inspect(name, value) ==
    /\ Running
    /\ HoldsCode
    /\ last' = <<name, value>>
    /\ UNCHANGED <<portable, unix, phase, held, stderr, status>>

IsPortable == Inspect("is_portable", is_portable(code))
Coerce == Inspect("coerce", coerce(code))
IsOk == Inspect("is_ok", is_ok(code))
IsErr == Inspect("is_err", is_err(code))
IsReserved == Inspect("is_reserved", is_reserved(code))
Raw == Inspect("raw", raw(code))

\* code.process_exit()
CodeProcessExit ==
    /\ Running
    /\ HoldsCode
    /\ status' = Some(Code_exit_status(code))
    /\ phase' = "terminated"
    /\ last' = <<"Code::process_exit", code>>
    /\ UNCHANGED <<portable, unix, held, stderr>>

\* let result = code.ok()
CodeOk ==
    /\ Running
    /\ HoldsCode
    /\ held' = HoldResult(ok(code))
    /\ last' = <<"ok", code>>
    /\ UNCHANGED <<portable, unix, phase, stderr, status>>

\* let result = Err(code.into_exit())
IntoExit ==
    /\ Running
    /\ HoldsCode
    /\ last' = <<"into_exit", code>>
    /\ IF into_exit_panics(code)
       THEN phase' = "panicked" /\ UNCHANGED held
       ELSE held' = HoldResult(Err(into_exit(code))) /\ UNCHANGED phase
    /\ UNCHANGED <<portable, unix, stderr, status>>

\* let result = Err(code.with_message(d))
CodeWithMessage(d) ==
    /\ Running
    /\ HoldsCode
    /\ last' = <<"Code::with_message", code, d>>
    /\ IF into_exit_panics(code)
       THEN phase' = "panicked" /\ UNCHANGED held
       ELSE held' = HoldResult(Err(Code_with_message(code, d))) /\ UNCHANGED phase
    /\ UNCHANGED <<portable, unix, stderr, status>>

\* let result = Err(Exit::new(code))
ExitNew ==
    /\ Running
    /\ HoldsCode
    /\ held' = HoldResult(Err(Exit_new(code)))
    /\ last' = <<"Exit::new", code>>
    /\ UNCHANGED <<portable, unix, phase, stderr, status>>

\* let result = result.map_err(|e| e.with_message(d))
ExitWithMessage(d) ==
    /\ Running
    /\ HoldsResult
    /\ IsErrResult(result)
    /\ held' = HoldResult(Err(Exit_with_message(result[2], d)))
    /\ last' = <<"Exit::with_message", result[2], d>>
    /\ UNCHANGED <<portable, unix, phase, stderr, status>>

\* format!("{}", exit) on the Exit held: the text is kept in last
ExitFmt ==
    /\ Running
    /\ HoldsResult
    /\ IsErrResult(result)
    /\ last' = <<"fmt", Exit_fmt(result[2])>>
    /\ UNCHANGED <<portable, unix, phase, held, stderr, status>>

\* let result = Err(Exit::from(err))
FromIoError(err) ==
    /\ Running
    /\ held' = HoldResult(Err(Exit_from_io_Error(err)))
    /\ last' = <<"Exit::from", err>>
    /\ UNCHANGED <<portable, unix, phase, stderr, status>>

\* let result = r.with_code(code)
WithCode(r) ==
    /\ Running
    /\ HoldsCode
    /\ held' = HoldResult(with_code(r, code))
    /\ last' = <<"with_code", r, code>>
    /\ UNCHANGED <<portable, unix, phase, stderr, status>>

\* let result = r.to_sysexits()
ToSysexits(r) ==
    /\ Running
    /\ held' = HoldResult(to_sysexits(r))
    /\ last' = <<"to_sysexits", r>>
    /\ UNCHANGED <<portable, unix, phase, stderr, status>>

\* let code = result.report()
Report ==
    /\ Running
    /\ HoldsResult
    /\ IsExitResult(result)
    /\ report_writes(result) # <<>> => Len(stderr) < MaxPieces
    /\ \E w \in WriteResults(result) :
        /\ stderr' = stderr \o write_fmt(report_writes(result), w[1], w[2])
        /\ held' = HoldCode(report(result, w[1]))
        /\ last' = <<"report", result, w[1], w[2]>>
    /\ UNCHANGED <<portable, unix, phase, status>>

\* result.process_exit(), its first call: let code = self.report()
ProcessExit ==
    /\ Running
    /\ HoldsResult
    /\ IsExitResult(result)
    /\ \E w \in WriteResults(result) :
        /\ stderr' = stderr \o write_fmt(report_writes(result), w[1], w[2])
        /\ held' = Exiting(report(result, w[1]))
        /\ last' = <<"process_exit", result, w[1], w[2]>>
    /\ UNCHANGED <<portable, unix, phase, status>>

\* result.process_exit(), its second call: code.process_exit()
ProcessExitCode ==
    /\ phase = "running"
    /\ held[1] = "Exiting"
    /\ status' = Some(Code_exit_status(held[2]))
    /\ phase' = "terminated"
    /\ held' = Nothing
    /\ UNCHANGED <<portable, unix, stderr, last>>

\* Result<T, E> values with a displayable E, and Result<T, io::Error> values
StrResults == {Ok(v) : v \in OkVals} \cup {Err(e) : e \in Displayables}
IoResults == {Ok(v) : v \in OkVals} \cup {Err(e) : e \in IoErrors}

Next ==
    \/ \E n \in I32s : New(n)
    \/ \E m \in Modules : \E n \in DOMAIN Catalog(m) : Named(m, n)
    \/ \E st \in ExitStatuses : FromStatus(st)
    \/ \E kind \in ErrorKind : FromErrorKind(kind)
    \/ IsPortable
    \/ Coerce
    \/ IsOk
    \/ IsErr
    \/ IsReserved
    \/ Raw
    \/ CodeProcessExit
    \/ CodeOk
    \/ IntoExit
    \/ \E d \in Displayables : CodeWithMessage(d)
    \/ ExitNew
    \/ \E d \in Displayables : ExitWithMessage(d)
    \/ ExitFmt
    \/ \E err \in IoErrors : FromIoError(err)
    \/ \E r \in StrResults : WithCode(r)
    \/ \E r \in IoResults : ToSysexits(r)
    \/ Report
    \/ ProcessExit
    \/ ProcessExitCode

Spec == Init /\ [][Next]_vars

\* The calls that leave stderr alone, on the same inputs as Next: the program
\* that builds and inspects codes and results and never reports one
NextValues ==
    \/ \E n \in I32s : New(n)
    \/ \E m \in Modules : \E n \in DOMAIN Catalog(m) : Named(m, n)
    \/ \E st \in ExitStatuses : FromStatus(st)
    \/ \E kind \in ErrorKind : FromErrorKind(kind)
    \/ IsPortable
    \/ Coerce
    \/ IsOk
    \/ IsErr
    \/ IsReserved
    \/ Raw
    \/ CodeProcessExit
    \/ CodeOk
    \/ IntoExit
    \/ \E d \in Displayables : CodeWithMessage(d)
    \/ ExitNew
    \/ \E d \in Displayables : ExitWithMessage(d)
    \/ ExitFmt
    \/ \E err \in IoErrors : FromIoError(err)
    \/ \E r \in StrResults : WithCode(r)
    \/ \E r \in IoResults : ToSysexits(r)

SpecValues == Init /\ [][NextValues]_vars

\* i32 arguments of the program that reports: SUCCESS, codes in 0..=255 and
\* codes outside it
ReportI32s == {I32Min, -1, 0, 1, 77, 256}

\* messages of the program that reports: a string, written as one piece, and
\* an OS error, written as four
ReportMessages == {StrError("boom"), OsError(13)}

\* The program that builds a Result<(), Exit> from a code, with or without a
\* message, and reports it or exits with it
NextReport ==
    \/ \E n \in ReportI32s : New(n)
    \/ CodeOk
    \/ IntoExit
    \/ \E d \in ReportMessages : CodeWithMessage(d)
    \/ ExitNew
    \/ \E d \in ReportMessages : ExitWithMessage(d)
    \/ Report
    \/ ProcessExit
    \/ ProcessExitCode

SpecReport == Init /\ [][NextReport]_vars

-----------------------------------------------------------------------------
(* Claims *)

InRange(n) == 0 <= n /\ n <= 255

\* C1 (as claimed): after Code::from_status(st), a status with no exit value
\* that was killed by signal N gives raw() = 128 + N, and a status with exit
\* value n gives raw() = n.
C1_SignalIs128PlusN ==
    (last[1] = "from_status" /\ HoldsCode) =>
        LET st == last[2] IN
        /\ (st.code = None /\ st.signal # None) => raw(code) = 128 + st.signal[1]
        /\ st.code # None => raw(code) = st.code[1]

\* C2 (as claimed): c.process_exit() hands c.raw() to process termination when
\* 0 <= c.raw() <= 255 and the non-zero default otherwise, so the status is
\* always in 0..=255 and is 0 only when c.raw() = 0.
C2_AlwaysCoerced ==
    last[1] = "Code::process_exit" =>
        LET n == last[2][1] IN
        /\ status = Some(IF InRange(n) THEN n ELSE 2)
        /\ InRange(status[1])
        /\ status[1] = 0 => n = 0

\* C3: report returns SUCCESS for Ok(()) and exactly e.code for Err(e), for
\* every code (in 0..=255 or not) and whatever the outcome of the write to
\* standard error.
C3_ReportReturnsCode ==
    last[1] = "report" =>
        LET r == last[2] IN
        /\ HoldsCode
        /\ phase = "running"
        /\ r[1] = "Ok" => code = Code(0)
        /\ r[1] = "Err" => code = r[2].code

C3_Witness ==
    /\ last[1] = "report"
    /\ last[2][1] = "Err"
    /\ last[2][2].code = Code(256)
    /\ last[3] = "Err"
    /\ held = HoldCode(Code(256))

\* the text of a boxed message: what its pieces make
TextOf(box) == Concat(box[2])

\* the text a value given as a message displays as
TextOfValue(d) ==
    CASE d[1] = "str" -> d[2]
      [] d[1] = "io" -> d[3]
      [] d[1] = "multi" -> Concat(d[2])
      [] d = <<"os", "NotFound", 2>> -> "No such file or directory (os error 2)"
      [] d = <<"os", "PermissionDenied", 13>> -> "Permission denied (os error 13)"

\* the pieces one call of report on r is to hand to standard error
C4_Expected(r) ==
    IF r[1] = "Err" /\ r[2].msg # None THEN r[2].msg[1][2] \o <<"\n">>
    ELSE <<>>

\* the text one call of report on r is to write
C4_Text(r) ==
    IF r[1] = "Err" /\ r[2].msg # None THEN TextOf(r[2].msg[1]) \o "\n"
    ELSE ""

\* what one call on r may hand over when its write ended as wr: all of it, or
\* on a failure the pieces up to the failed one
C4_Handed(r, wr) ==
    IF wr = "Err"
    THEN {SubSeq(C4_Expected(r), 1, k) : k \in 1..Len(C4_Expected(r))}
    ELSE {C4_Expected(r)}

\* C4 (as claimed): one call of report appends to standard error exactly the
\* message text followed by one newline when the result is Err with a
\* message, and nothing when it is Ok(()) or Err without a message.
C4_ReportWrites ==
    [][(HoldsResult /\ last'[1] = "report") =>
            Concat(stderr') = Concat(stderr) \o C4_Text(result)]_vars

\* C4 (amended): one call of report writes to standard error the message
\* text followed by one newline when the result is Err with a message and the
\* writes succeed; the text goes out in the pieces the message's fmt writes,
\* and when a write fails nothing after the failed piece is handed over (part
\* of the text, the text, or the text and the newline); it writes nothing
\* when the result is Ok(()) or Err without a message.
C4_ReportHands ==
    [][(HoldsResult /\ last'[1] = "report") =>
            /\ (last'[3] = "None") = (C4_Expected(result) = <<>>)
            /\ last'[3] \in {"None", "Ok", "Err"}
            /\ \E h \in C4_Handed(result, last'[3]) : stderr' = stderr \o h
            /\ last'[3] # "Err" =>
                Concat(stderr') = Concat(stderr) \o C4_Text(result)]_vars

C4_Witness ==
    /\ last[1] = "report"
    /\ last[2] = Err([code |-> Code(1), msg |-> Some(Boxed(<<"boom">>))])
    /\ last[3] = "Ok"
    /\ stderr = <<"Permission denied", "boom", "\n">>
    /\ held = HoldCode(Code(1))

\* the code report is to return for r
C5_Reported(r) == IF r[1] = "Ok" THEN 0 ELSE r[2].code[1]

\* C5 (as claimed): result.process_exit() writes what report writes and then
\* terminates with the portable representation (in 0..=255) of the code
\* report returned; nothing happens after termination.
C5_PortableStatus ==
    [][/\ phase = "running"
       /\ (HoldsResult /\ last'[1] = "process_exit") =>
            /\ \E h \in C4_Handed(result, last'[3]) : stderr' = stderr \o h
            /\ phase' = "running"
            /\ held' = <<"Exiting", Code(C5_Reported(result))>>
       /\ held[1] = "Exiting" =>
            /\ stderr' = stderr
            /\ phase' = "terminated"
            /\ status' = Some(IF InRange(held[2][1]) THEN held[2][1] ELSE 2)]_vars

\* C6 (as claimed): no Exit whose code is SUCCESS exists, report on an Err
\* never returns SUCCESS, and a failing run never terminates with status 0.
C6_NoSuccessExit ==
    /\ (HoldsResult /\ result[1] = "Err") => result[2].code # Code(0)
    /\ (last[1] = "report" /\ last[2][1] = "Err") => held # HoldCode(Code(0))
    /\ (last[1] = "process_exit" /\ last[2][1] = "Err") => status # Some(0)

\* C7: c.ok() is Ok(()) iff c.raw() = 0, otherwise Err of an Exit with code c
\* and no message; c.is_ok() iff c.raw() = 0, c.is_err() iff not.
C7_OkIffSuccess ==
    /\ last[1] = "ok" =>
        /\ HoldsResult
        /\ last[2][1] = 0 => result = <<"Ok", "()">>
        /\ last[2][1] # 0 => result = <<"Err", [code |-> last[2], msg |-> <<>>]>>
    /\ last[1] = "is_ok" => last[2] = (raw(code) = 0)
    /\ last[1] = "is_err" => last[2] = (raw(code) # 0)

C7_Witness ==
    /\ last = <<"ok", Code(-1)>>
    /\ held = HoldResult(Err([code |-> Code(-1), msg |-> None]))

\* the table of the spec: I/O error kind -> raw code
C8_Table(kind) ==
    CASE kind = "NotFound" -> 72
      [] kind = "PermissionDenied" -> 77
      [] kind = "ConnectionRefused" -> 76
      [] kind = "ConnectionReset" -> 76
      [] kind = "ConnectionAborted" -> 76
      [] kind = "NotConnected" -> 76
      [] kind = "AddrInUse" -> 69
      [] kind = "AddrNotAvailable" -> 69
      [] kind = "BrokenPipe" -> 141
      [] kind = "AlreadyExists" -> 73
      [] kind = "InvalidInput" -> 65
      [] kind = "InvalidData" -> 65
      [] kind = "UnexpectedEof" -> 65
      [] kind = "TimedOut" -> 142
      [] kind = "WriteZero" -> 66
      [] kind = "Interrupted" -> 130
      [] kind = "Other" -> 1
      [] OTHER -> 74

\* C8: Code::from(kind) is the table: every kind gives its one code.
C8_KindTable ==
    last[1] = "from_kind" =>
        /\ last[2] \in ErrorKind
        /\ held = HoldCode(Code(C8_Table(last[2])))

C8_Witness ==
    /\ last = <<"from_kind", "Other">>
    /\ held = HoldCode(Code(1))

\* the sysexits mapping and the signal mapping, 0 where there is none
C9_Sysexits(kind) ==
    CASE kind = "NotFound" -> 72
      [] kind = "PermissionDenied" -> 77
      [] kind \in {"ConnectionRefused", "ConnectionReset",
                   "ConnectionAborted", "NotConnected"} -> 76
      [] kind \in {"AddrInUse", "AddrNotAvailable"} -> 69
      [] kind = "AlreadyExists" -> 73
      [] kind \in {"InvalidInput", "InvalidData", "UnexpectedEof"} -> 65
      [] kind = "WriteZero" -> 66
      [] OTHER -> 0

C9_Signal(kind) ==
    CASE kind = "BrokenPipe" -> 141
      [] kind = "TimedOut" -> 142
      [] kind = "Interrupted" -> 130
      [] OTHER -> 0

C9_Code(kind) ==
    IF C9_Sysexits(kind) # 0 THEN C9_Sysexits(kind)
    ELSE IF C9_Signal(kind) # 0 THEN C9_Signal(kind)
    ELSE 74

\* C9: to_sysexits passes Ok through unchanged and turns Err(e) into an Exit
\* whose code is the sysexits mapping of e.kind(), else its signal mapping,
\* else IO_ERR, and whose message is e's display text.
C9_ToSysexits ==
    last[1] = "to_sysexits" =>
        LET r == last[2] IN
        /\ HoldsResult
        /\ r[1] = "Ok" => result = r
        /\ r[1] = "Err" =>
            /\ result[1] = "Err"
            /\ result[2].code = Code(C9_Code(r[2][2]))
            /\ result[2].msg # None
            /\ TextOf(result[2].msg[1]) = TextOfValue(r[2])

C9_Witness ==
    /\ last = <<"to_sysexits", Err(IoError("BrokenPipe", "boom"))>>
    /\ held = HoldResult(Err([code |-> Code(141), msg |-> Some(Boxed(<<"boom">>))]))

\* C10 (as claimed): Code::new(n).raw() = n; is_portable() iff 0 <= n <= 255;
\* coerce() is the code itself exactly when 0 <= n <= 255 and None otherwise.
C10_PortableIffInRange ==
    /\ last[1] = "new" => (HoldsCode /\ raw(code) = last[2])
    /\ last[1] = "raw" => last[2] = code[1]
    /\ last[1] = "is_portable" => last[2] = InRange(code[1])
    /\ last[1] = "coerce" =>
        last[2] = (IF InRange(code[1]) THEN Some(code) ELSE None)

\* the documented reserved ranges
C11_Documented(n) ==
    \/ n \in 0..2
    \/ n \in 64..78
    \/ n \in 126..128
    \/ n \in (128 + 1)..(128 + 15)

\* C11: c.is_reserved() is true iff c.raw() lies in 0..=2, 64..=78, 126..=128
\* or 129..=143, and false in every gap between or outside those ranges.
C11_ReservedRanges ==
    last[1] = "is_reserved" =>
        /\ HoldsCode
        /\ last[2] = C11_Documented(raw(code))

C11_Witness ==
    /\ held = HoldCode(Code(79))
    /\ last = <<"is_reserved", FALSE>>

\* C12: Exit::with_message keeps the code and replaces the message by the one
\* given; formatting an Exit with Display yields exactly its message, or the
\* empty string when it has none.
C12_WithMessage ==
    /\ last[1] = "Exit::with_message" =>
        /\ HoldsResult
        /\ result[1] = "Err"
        /\ result[2].code = last[2].code
        /\ result[2].msg # None
        /\ TextOf(result[2].msg[1]) = TextOfValue(last[3])
    /\ last[1] = "fmt" =>
        last[2] = (IF result[2].msg = <<>> THEN ""
                   ELSE TextOf(result[2].msg[1]))

C12_Witness ==
    /\ last = <<"Exit::with_message",
                [code |-> Code(77), msg |-> Some(Boxed(<<"boom">>))],
                StrError("denied")>>
    /\ held = HoldResult(Err([code |-> Code(77), msg |-> Some(Boxed(<<"denied">>))]))

\* the signal number each SIG* constant is named after
C13_SignalNumber ==
    [SIGHUP |-> 1, SIGINT |-> 2, SIGQUIT |-> 3, SIGILL |-> 4, SIGTRAP |-> 5,
     SIGABRT |-> 6, SIGFPE |-> 8, SIGKILL |-> 9, SIGSEGV |-> 11,
     SIGPIPE |-> 13, SIGALRM |-> 14, SIGTERM |-> 15]

\* the fifteen sysexits constants in the order of sysexits(3)
C13_SysexitsOrder ==
    <<"USAGE_ERR", "DATA_ERR", "NO_INPUT", "NO_USER", "NO_HOST",
      "SERVICE_UNAVAILABLE", "SOFTWARE_ERR", "OS_ERR", "OS_FILE_ERR",
      "CANT_CREAT", "IO_ERR", "TEMP_FAIL", "PROTOCOL_ERR", "NO_PERM",
      "CONFIG_ERR">>

\* what the catalog says of the constant n of m, whose value is c, apart from
\* which constants are successes
C13_Tables(m, n, c) ==
    /\ n \in DOMAIN C13_SignalNumber => raw(c) = 128 + C13_SignalNumber[n]
    /\ \A i \in 1..15 : n = C13_SysexitsOrder[i] => raw(c) = 63 + i
    /\ (m # "Code" /\ n \in DOMAIN Code_consts) => c = Code_consts[n]

\* C13 (as claimed): each SIG* constant is 128 + N, the fifteen sysexits
\* constants are 64..=78 in order, a constant defined in two places has one
\* value, and SUCCESS is the only named constant with is_ok().
C13_OnlySuccessIsOk ==
    last[1] = "const" =>
        /\ HoldsCode
        /\ C13_Tables(last[2], last[3], code)
        /\ is_ok(code) => last[3] = "SUCCESS"

\* C13 (amended): as claimed, except that the named constants with is_ok()
\* are Code::SUCCESS and sysexits::OK, both 0.
C13_Catalog ==
    last[1] = "const" =>
        /\ HoldsCode
        /\ C13_Tables(last[2], last[3], code)
        /\ is_ok(code) <=>
            (last[3] = "SUCCESS" \/ (last[2] = "sysexits" /\ last[3] = "OK"))

C13_Witness ==
    /\ last = <<"const", "sysexits", "OK">>
    /\ held = HoldCode(Code(0))

\* the two lookups of to_sysexits never both answer for kind, so their order
\* does not matter
C14_Disjoint(kind) ==
    /\ io_to_sysexists(kind) = None \/ io_to_signal(kind) = None
    /\ or_else(io_to_signal(kind), io_to_sysexists(kind))
        = or_else(io_to_sysexists(kind), io_to_signal(kind))

\* C14: Exit::from(io::Error) and to_sysexits give an error of the same kind
\* the same code, except for the kind Other, where the first gives FAILURE (1)
\* and the second IO_ERR (74); io_to_sysexists and io_to_signal never both
\* return a code for one kind.
C14_PathsAgree ==
    /\ last[1] = "Exit::from" =>
        /\ HoldsResult
        /\ C14_Disjoint(last[2][2])
        /\ result[2].code = (IF last[2][2] = "Other" THEN Code(1)
                             ELSE to_sysexits_code(last[2][2]))
    /\ (last[1] = "to_sysexits" /\ last[2][1] = "Err") =>
        /\ HoldsResult
        /\ C14_Disjoint(last[2][2][2])
        /\ result[2].code = (IF last[2][2][2] = "Other" THEN Code(74)
                             ELSE Code_from_ErrorKind(last[2][2][2]))

C14_Witness ==
    /\ last = <<"Exit::from", IoError("Other", "boom")>>
    /\ held = HoldResult(Err([code |-> Code(1), msg |-> Some(Boxed(<<"boom">>))]))

====
